---- MODULE Spec2Model ----
(***************************************************************************)
(* pico-celery: markers (@task, @send_task, @celery), the client-side      *)
(* interceptor, the task registrar and the synchronous task wrapper.       *)
(*                                                                         *)
(* An optional attribute (hasattr / getattr with a default) is a set with  *)
(* zero or one element.  A keyword-options mapping is a set of <<key,      *)
(* value>> pairs with distinct keys.                                       *)
(***************************************************************************)
EXTENDS Integers, Sequences, FiniteSets, TLC

\* ------------------------------------------------------------------ bounds
MaxEntries == 2     \* registry entries of one container
MaxDecorations == 3 \* marker / class-decorator applications in one run
MaxCalls == 2       \* intercepted client calls in one run
MaxInvocations == 2 \* wrapper invocations in one run
MaxLoopTicks == 2   \* counted iterations of a calling thread's own event loop

\* ---------------------------------------------------------- object universe
\* Function objects defined in class bodies, by qualified name.
AsyncFuncs == {"MathTasks.multiply", "MathTasks.add", "ReportTasks.build"}
SyncFuncs == {"MathTasks.helper", "NotifyClient.notify", "NotifyClient.status",
              "NoTasks.regular_method"}
Funcs == AsyncFuncs \cup SyncFuncs

\* Other objects a marker may be applied to.
BoundMethods == {"bound method", "bound async method"}
OtherTargets == BoundMethods \cup {"class NotAFunction", "int 42", "callable object"}
Targets == Funcs \cup OtherTargets

\* inspect.getmembers(cls, inspect.isfunction): <<name, function>> pairs sorted
\* by name, inherited functions included (FastMath subclasses MathTasks).
ClassMembers ==
    [MathTasks |-> << <<"add", "MathTasks.add">>, <<"helper", "MathTasks.helper">>,
                      <<"multiply", "MathTasks.multiply">> >>,
     FastMath |-> << <<"add", "MathTasks.add">>, <<"helper", "MathTasks.helper">>,
                     <<"multiply", "MathTasks.multiply">> >>,
     ReportTasks |-> << <<"build", "ReportTasks.build">> >>,
     NotifyClient |-> << <<"notify", "NotifyClient.notify">>,
                         <<"status", "NotifyClient.status">> >>,
     NoTasks |-> << <<"regular_method", "NoTasks.regular_method">> >>]

Classes == DOMAIN ClassMembers

MemberNames(c) == {ClassMembers[c][i][1] : i \in 1..Len(ClassMembers[c])}

MemberFunc(c, n) ==
    LET i == CHOOSE j \in 1..Len(ClassMembers[c]) : ClassMembers[c][j][1] = n
    IN ClassMembers[c][i][2]

\* Task / sender names and keyword options a marker may be given.
TaskNames == {"tasks.a", "tasks.b"}
OptionSets == {{}, {<<"queue", "high">>}}
Metas == [name : TaskNames, options : OptionSets]

OptionKeys(options) == {p[1] : p \in options}

\* --------------------------------------------------------------- variables
VARIABLES
    \* attributes set by the markers, per target object
    taskMeta,           \* _pico_celery_method_meta (decorators.py:12)
    senderMeta,         \* _pico_celery_sender_meta (client.py:24)
    needsInterception,  \* functions carrying _needs_interception
    wrapped,            \* <<class, name>> set to the intercepted method by @celery
    components,         \* classes handed to component(), with their scope
    lastMark,           \* the latest marker application and how it ended
    decorations,        \* marker applications so far
    \* the container's locator and the registrar's scan
    hasLocator,         \* container._locator is present
    registry,           \* locator._metadata.values(), in iteration order
    regPc,              \* "idle" | "scan" | "done"
    regIdx,             \* index of the next registry entry to visit
    registered,         \* calls celery_app.task(name, **options)(wrapper), in order
    \* the Interception Adapter and what it calls
    results,            \* per invoke call, in order: its context and outcome
    sent,               \* calls celery_app.send_task(...), in order
    nextCalls,          \* calls call_next(ctx), in order
    \* wrapper invocations, the threads they run on and the container
    inv,                \* per invocation slot: its inputs, position and effects
    ambientLoop,        \* per calling thread: an event loop is running on it
    callerLoops,        \* per calling thread: event loops running on it
    loopTicks,          \* per calling thread: iterations its own loop has run
    instances           \* classes of the instances the container created, in order

markVars == <<taskMeta, senderMeta, needsInterception, wrapped, components, lastMark,
              decorations>>
regVars == <<hasLocator, registry, regPc, regIdx, registered>>
clientVars == <<results, sent, nextCalls>>
wrapVars == <<inv, ambientLoop, callerLoops, loopTicks, instances>>
vars == <<markVars, regVars, clientVars, wrapVars>>

\* Calling threads of the task-queue worker.
CallerThreads == {"worker-1", "worker-2"}

\* An invocation slot not yet used.
FreeSlot ==
    [pc |-> "free", thread |-> "", cls |-> "", method |-> "", args |-> <<>>,
     kwargs |-> {}, path |-> "none", ranOn |-> "none", agets |-> 0, inst |-> 0,
     calls |-> <<>>, raised |-> {}, co |-> {}, outcome |-> {}, pools |-> 0,
     poolLive |-> 0, poolLoops |-> 0, via |-> 0, needs |-> "none",
     posted |-> FALSE, served |-> FALSE, loopRan |-> FALSE]

\* No marker has been applied yet.
NoMark == [op |-> "none", target |-> "", name |-> "", options |-> {},
           outcome |-> "", returned |-> "", message |-> "", scope |-> "", mode |-> "",
           handed |-> {}]

\* Each part of the system before its first operation.
DecorationsIdle ==
    /\ needsInterception = {}
    /\ wrapped = {}
    /\ components = {}
    /\ lastMark = NoMark
    /\ decorations = 0

RegistrarIdle ==
    /\ hasLocator = FALSE
    /\ registry = <<>>
    /\ regPc = "idle"
    /\ regIdx = 1
    /\ registered = <<>>

ClientIdle ==
    /\ results = <<>>
    /\ sent = <<>>
    /\ nextCalls = <<>>

WrapperIdle ==
    /\ inv = [i \in 1..MaxInvocations |-> FreeSlot]
    /\ ambientLoop = [t \in CallerThreads |-> FALSE]
    /\ callerLoops = [t \in CallerThreads |-> 0]
    /\ loopTicks = [t \in CallerThreads |-> 0]
    /\ instances = <<>>

\* ------------------------------------------------------- Task Registrar
\* A registry entry is the value of its concrete_class attribute, if it has one.
NonClassValues == {"not_a_class"}
EntryValues == {{}} \cup {{v} : v \in Classes \cup NonClassValues}

\* Sequences over S of length at most n.
SeqUpTo(S, n) == UNION {[1..k -> S] : k \in 0..n}

\* inspect.isclass(getattr(md, "concrete_class", None))
IsClassEntry(md) == md # {} /\ \A v \in md : v \in Classes

\* hasattr(method_func, PICO_CELERY_METHOD_META)
HasTaskMeta(f) == taskMeta[f] # {}

TaskMetaOf(f) == CHOOSE m \in taskMeta[f] : TRUE

\* One pass of the inner loop of register_tasks over the members of a class,
\* from member i on: the registrations it issues, in order.  A registration
\* carries the closure of the wrapper built for it.
RECURSIVE ScanMembersFrom(_, _)
ScanMembersFrom(c, i) ==
    IF i > Len(ClassMembers[c]) THEN <<>>
    ELSE LET method_name == ClassMembers[c][i][1]
             method_func == ClassMembers[c][i][2]
         IN IF ~HasTaskMeta(method_func)
            THEN ScanMembersFrom(c, i + 1)
            ELSE << [name |-> TaskMetaOf(method_func).name,
                     options |-> TaskMetaOf(method_func).options,
                     cls |-> c,
                     method |-> method_name] >> \o ScanMembersFrom(c, i + 1)

\* The scan stops at the first task-marked member (a return in the loop).
ScanMembersFirstOnly(c) ==
    LET marked == {i \in 1..Len(ClassMembers[c]) : HasTaskMeta(ClassMembers[c][i][2])}
    IN IF marked = {} THEN <<>>
       ELSE LET i == CHOOSE j \in marked : \A k \in marked : j <= k
            IN << [name |-> TaskMetaOf(ClassMembers[c][i][2]).name,
                   options |-> TaskMetaOf(ClassMembers[c][i][2]).options,
                   cls |-> c,
                   method |-> ClassMembers[c][i][1]] >>

\* Every wrapper of a class calls the method of the last iteration of the
\* member loop (the closure reads the loop variable when it is invoked).
ScanMembersLateBound(c) ==
    LET found == ScanMembersFrom(c, 1)
    IN [r \in 1..Len(found) |-> [found[r] EXCEPT !.method = found[Len(found)].method]]

ScanMembers(c) == ScanMembersFrom(c, 1)

\* The body of the outer loop for one registry entry.
EntryRegistrations(md) ==
    IF ~IsClassEntry(md) THEN <<>>
    ELSE ScanMembers(CHOOSE v \in md : TRUE)

\* register_tasks up to the loop: no locator, return at once.
RegisterStart ==
    /\ regPc = "idle"
    /\ regPc' = IF hasLocator THEN "scan" ELSE "done"
    /\ UNCHANGED <<hasLocator, registry, regIdx, registered, markVars, clientVars, wrapVars>>

\* An entry that is not a class ends the scan (a return where the code has
\* continue).
RegisterEntryStopsAtNonClass ==
    /\ regPc = "scan"
    /\ regIdx <= Len(registry)
    /\ registered' = registered \o EntryRegistrations(registry[regIdx])
    /\ regIdx' = regIdx + 1
    /\ regPc' = IF IsClassEntry(registry[regIdx]) THEN regPc ELSE "done"
    /\ UNCHANGED <<hasLocator, registry, markVars, clientVars, wrapVars>>

\* The scan takes the metadata off the functions it registers.
RegisterEntryConsumesMeta ==
    /\ regPc = "scan"
    /\ regIdx <= Len(registry)
    /\ registered' = registered \o EntryRegistrations(registry[regIdx])
    /\ regIdx' = regIdx + 1
    /\ taskMeta' = [t \in Targets |->
                      IF \E c \in registry[regIdx] : \E n \in MemberNames(c) :
                            MemberFunc(c, n) = t
                      THEN {} ELSE taskMeta[t]]
    /\ UNCHANGED <<hasLocator, registry, regPc, senderMeta, needsInterception, wrapped,
                   components, lastMark, decorations, clientVars, wrapVars>>

\* One iteration of the loop over metadata_map.values().
RegisterEntry ==
    /\ regPc = "scan"
    /\ regIdx <= Len(registry)
    /\ registered' = registered \o EntryRegistrations(registry[regIdx])
    /\ regIdx' = regIdx + 1
    /\ UNCHANGED <<hasLocator, registry, regPc, markVars, clientVars, wrapVars>>

\* The loop is exhausted: register_tasks returns.
RegisterReturn ==
    /\ regPc = "scan"
    /\ regIdx > Len(registry)
    /\ regPc' = "done"
    /\ UNCHANGED <<hasLocator, registry, regIdx, registered, markVars, clientVars, wrapVars>>

\* Names for which a registration was issued on the task-queue application.
RegisteredNames == {registered[i].name : i \in 1..Len(registered)}

\* Metadata the markers can have left on the functions: @task accepts only
\* coroutine functions.
MarkedStates ==
    {[t \in Targets |-> IF t \in AsyncFuncs THEN tm[t] ELSE {}] :
        tm \in [AsyncFuncs -> {{}} \cup {{m} : m \in Metas}]}

RegistrarInit ==
    /\ ClientIdle
    /\ WrapperIdle
    /\ taskMeta \in MarkedStates
    /\ senderMeta = [t \in Targets |-> {}]
    /\ DecorationsIdle
    /\ hasLocator \in BOOLEAN
    /\ registry \in SeqUpTo(EntryValues, MaxEntries)
    /\ (~hasLocator => registry = <<>>)
    /\ regPc = "idle"
    /\ regIdx = 1
    /\ registered = <<>>

RegistrarNext == RegisterStart \/ RegisterEntry \/ RegisterReturn

SpecRegistrar == RegistrarInit /\ [][RegistrarNext]_vars

\* C1: once register_tasks has returned on a registry whose entries all map to
\* classes, every name declared by a task-marked method of a registry class has
\* a registration on the task-queue application, whatever the entry order.
C1_AllMarkedRegistered ==
    (regPc = "done" /\ hasLocator
        /\ \A i \in 1..Len(registry) : IsClassEntry(registry[i]))
    => \A i \in 1..Len(registry) : \A c \in registry[i] : \A n \in MemberNames(c) :
          HasTaskMeta(MemberFunc(c, n))
             => TaskMetaOf(MemberFunc(c, n)).name \in RegisteredNames

C1_Witness ==
    /\ regPc = "done" /\ hasLocator
    /\ registry = << {"ReportTasks"}, {"MathTasks"} >>
    /\ taskMeta["MathTasks.add"] # {} /\ taskMeta["MathTasks.multiply"] # {}
    /\ taskMeta["ReportTasks.build"] # {}
    /\ TaskMetaOf("MathTasks.add").name # TaskMetaOf("MathTasks.multiply").name
    /\ RegisteredNames = TaskNames
    /\ Len(registered) = 3

\* The task-marked function members of a class.
TaskMarked(c) == {n \in MemberNames(c) : HasTaskMeta(MemberFunc(c, n))}

\* Registrations due for the first k registry entries: one per task-marked
\* member of an entry that is a class, none for any other entry.
RECURSIVE DueRegistrations(_)
DueRegistrations(k) ==
    IF k = 0 THEN 0
    ELSE DueRegistrations(k - 1)
         + (IF IsClassEntry(registry[k])
            THEN Cardinality(TaskMarked(CHOOSE v \in registry[k] : TRUE))
            ELSE 0)

\* C11: without a locator register_tasks returns with no registration; with
\* one, an entry whose concrete type is missing or not a class adds no
\* registration, the scan goes on to its end, and once it has returned every
\* task-marked method of every class entry has its registration.
C11_AnomaliesTolerated ==
    /\ regPc \in {"idle", "scan", "done"}
    /\ ~hasLocator => registered = <<>> /\ regPc # "scan"
    /\ (hasLocator /\ regPc # "idle")
       => Len(registered) = DueRegistrations(regIdx - 1)
    /\ (hasLocator /\ regPc = "done")
       => /\ regIdx = Len(registry) + 1
          /\ \A i \in 1..Len(registry) :
                IsClassEntry(registry[i])
                => \A c \in registry[i] : \A n \in TaskMarked(c) :
                      \E r \in 1..Len(registered) :
                         /\ registered[r].cls = c /\ registered[r].method = n
                         /\ registered[r].name = TaskMetaOf(MemberFunc(c, n)).name

C11_Witness ==
    /\ regPc = "done" /\ hasLocator
    /\ registry = << {"not_a_class"}, {"ReportTasks"} >>
    /\ taskMeta["ReportTasks.build"] = {[name |-> "tasks.b", options |-> {}]}
    /\ registered = << [name |-> "tasks.b", options |-> {}, cls |-> "ReportTasks",
                        method |-> "build"] >>

\* ------------------------------------------------- Interception Adapter
\* Interception contexts: MethodCtx(cls, name, args, kwargs).
CtxTargets == {<<"NotifyClient", "notify">>, <<"NotifyClient", "status">>,
               <<"NotifyClient", "missing">>, <<"MathTasks", "add">>,
               <<"MathTasks", "multiply">>}
CtxArgs == {<<>>, <<7, "hi">>}
CtxKwargs == {{}, {<<"arg2", "value2">>}}
Contexts == {[cls |-> t[1], name |-> t[2], args |-> a, kwargs |-> k] :
                t \in CtxTargets, a \in CtxArgs, k \in CtxKwargs}

\* What the continue callback does when called: the rest of the chain, ending
\* in the method body, returns or raises.
NextOutcomes == {[kind |-> "return", value |-> "next_result", handle |-> 0],
                 [kind |-> "raise", value |-> "BodyError", handle |-> 0]}

\* Options a sender may declare; args and kwargs are also parameter names of
\* the send_task call in invoke.
SenderOptionSets == OptionSets \cup {{<<"args", "declared">>},
                                     {<<"queue", "high">>, <<"kwargs", "declared">>}}
SenderMetas == [name : TaskNames, options : SenderOptionSets]

\* The meta read by invoke falls back to the task metadata.
SenderMetaOrTaskMeta(ctx) ==
    IF ctx.name \notin MemberNames(ctx.cls) THEN {}
    ELSE IF senderMeta[MemberFunc(ctx.cls, ctx.name)] # {}
         THEN senderMeta[MemberFunc(ctx.cls, ctx.name)]
         ELSE taskMeta[MemberFunc(ctx.cls, ctx.name)]

\* invoke, the try block: getattr(ctx.cls, ctx.name), then the sender metadata
\* of what it finds; None on AttributeError and when there is none.
LookupSenderMeta(ctx) ==
    IF ctx.name \notin MemberNames(ctx.cls) THEN {}
    ELSE senderMeta[MemberFunc(ctx.cls, ctx.name)]

\* A keyword given by name and again through **options: the call raises
\* TypeError before send_task is entered.
KeywordClash(options) == OptionKeys(options) \cap {"args", "kwargs"} # {}

\* The submission drops the declared options.
SubmissionWithoutOptions(meta, ctx) ==
    [name |-> meta.name, args |-> ctx.args, kwargs |-> ctx.kwargs, options |-> {}]

\* send_task(task_name, args=ctx.args, kwargs=ctx.kwargs, **options)
Submission(meta, ctx) ==
    [name |-> meta.name, args |-> ctx.args, kwargs |-> ctx.kwargs,
     options |-> meta.options]

\* CeleryClientInterceptor.invoke(ctx, call_next)
Invoke(ctx) ==
    LET k == Len(results) + 1
        found == LookupSenderMeta(ctx)
    IN /\ Len(results) < MaxCalls
       /\ IF found = {}
          THEN \E o \in NextOutcomes :
                  /\ nextCalls' = Append(nextCalls, [by |-> k, ctx |-> ctx, outcome |-> o])
                  /\ results' = Append(results, [ctx |-> ctx, outcome |-> o])
                  /\ sent' = sent
          ELSE LET meta == CHOOSE m \in found : TRUE
               IN IF KeywordClash(meta.options)
                  THEN /\ results' = Append(results,
                              [ctx |-> ctx,
                               outcome |-> [kind |-> "raise", value |-> "TypeError",
                                            handle |-> 0]])
                       /\ UNCHANGED <<sent, nextCalls>>
                  ELSE /\ sent' = Append(sent, [by |-> k, call |-> Submission(meta, ctx)])
                       /\ results' = Append(results,
                              [ctx |-> ctx,
                               outcome |-> [kind |-> "return", value |-> "AsyncResult",
                                            handle |-> Len(sent) + 1]])
                       /\ nextCalls' = nextCalls
       /\ UNCHANGED <<markVars, regVars, wrapVars>>

\* Metadata left by the markers on the client fixture: notify carries any
\* sender metadata or none, status nothing, MathTasks.add task metadata only,
\* MathTasks.multiply both kinds.
ClientInit ==
    /\ \E sm \in {{}} \cup {{m} : m \in SenderMetas} :
          senderMeta = [f \in Targets |->
                           IF f = "NotifyClient.notify" THEN sm
                           ELSE IF f = "MathTasks.multiply"
                                THEN {[name |-> "tasks.b", options |-> {}]}
                                ELSE {}]
    /\ taskMeta = [f \in Targets |->
                      IF f \in {"MathTasks.add", "MathTasks.multiply"}
                      THEN {[name |-> "tasks.a", options |-> {<<"queue", "high">>}]}
                      ELSE {}]
    /\ DecorationsIdle
    /\ RegistrarIdle
    /\ ClientIdle
    /\ WrapperIdle

ClientNext == \E ctx \in Contexts : Invoke(ctx)

SpecClient == ClientInit /\ [][ClientNext]_vars

SentBy(k) == {i \in 1..Len(sent) : sent[i].by = k}
NextBy(k) == {i \in 1..Len(nextCalls) : nextCalls[i].by = k}

\* The sender metadata declared on the method a context names, if any.
DeclaredSender(ctx) ==
    IF ctx.name \in MemberNames(ctx.cls)
    THEN senderMeta[MemberFunc(ctx.cls, ctx.name)] ELSE {}

\* The call made one submission, with the declared name, the call's args and
\* kwargs and the declared options, got its handle back, and never continued.
SubmittedOnce(k, m) ==
    /\ NextBy(k) = {}
    /\ Cardinality(SentBy(k)) = 1
    /\ \A i \in SentBy(k) :
          /\ sent[i].call = [name |-> m.name, args |-> results[k].ctx.args,
                             kwargs |-> results[k].ctx.kwargs, options |-> m.options]
          /\ results[k].outcome = [kind |-> "return", value |-> "AsyncResult",
                                   handle |-> i]

\* C2 as stated: every call to a sender-marked method makes exactly one
\* submission and never runs the body, for all declared option sets.
C2_AnyOptions ==
    \A k \in 1..Len(results) : \A m \in DeclaredSender(results[k].ctx) :
        SubmittedOnce(k, m)

\* C2 amended: every call to a sender-marked method never runs the body; when
\* the declared options name neither args nor kwargs it makes exactly one
\* submission (declared name, call args, call kwargs, declared options) and
\* returns its handle; when they do, it raises TypeError and submits nothing.
C2_SenderSubmitsOnce ==
    \A k \in 1..Len(results) : \A m \in DeclaredSender(results[k].ctx) :
        IF OptionKeys(m.options) \cap {"args", "kwargs"} = {}
        THEN SubmittedOnce(k, m)
        ELSE /\ NextBy(k) = {} /\ SentBy(k) = {}
             /\ results[k].outcome = [kind |-> "raise", value |-> "TypeError",
                                      handle |-> 0]

C2_Witness ==
    /\ Len(results) = 2
    /\ results[1].ctx = [cls |-> "NotifyClient", name |-> "notify",
                         args |-> <<7, "hi">>, kwargs |-> {}]
    /\ results[2].ctx = [cls |-> "NotifyClient", name |-> "notify",
                         args |-> <<>>, kwargs |-> {<<"arg2", "value2">>}]
    /\ senderMeta["NotifyClient.notify"] =
          {[name |-> "tasks.a", options |-> {<<"queue", "high">>}]}
    /\ Len(sent) = 2
    /\ sent[2].call.options = {<<"queue", "high">>}
    /\ results[2].outcome.handle = 2

\* C10: a call for a method without sender metadata (unknown name, unmarked,
\* or task-marked only) calls the continue callback exactly once with the
\* same context, yields exactly the callback's outcome and submits nothing.
C10_PassThrough ==
    \A k \in 1..Len(results) :
        DeclaredSender(results[k].ctx) = {}
        => /\ SentBy(k) = {}
           /\ Cardinality(NextBy(k)) = 1
           /\ \A i \in NextBy(k) :
                 /\ nextCalls[i].ctx = results[k].ctx
                 /\ results[k].outcome = nextCalls[i].outcome

C10_Witness ==
    /\ Len(results) = 2
    /\ results[1].ctx.cls = "MathTasks" /\ results[1].ctx.name = "add"
    /\ taskMeta["MathTasks.add"] # {}
    /\ results[1].outcome.kind = "return"
    /\ results[2].ctx.cls = "NotifyClient" /\ results[2].ctx.name = "missing"
    /\ results[2].outcome.kind = "raise"
    /\ senderMeta["NotifyClient.notify"] # {}
    /\ Len(nextCalls) = 2 /\ sent = <<>>

\* ---------------------------------------------- Synchronous Task Wrapper
\* Classes the container can resolve; aget of any other class raises
\* RuntimeError (FakeContainer.aget).
ContainerClasses == {"MathTasks", "ReportTasks"}

\* Wrappers built by _create_task_wrapper(component_cls, method_name, container).
WrapperTargets == {<<"MathTasks", "multiply">>, <<"ReportTasks", "build">>,
                   <<"FastMath", "add">>}

\* Call-time arguments: <<args, kwargs>>.
CallArguments == {<< <<3>>, {} >>, << <<>>, {<<"value", 5>>} >>, << <<3, 4>>, {} >>}

\* Parameters of the task methods after self.
MethodParams == [multiply |-> <<"value">>, build |-> <<"value">>, add |-> <<"x", "y">>]

Return(v) == [kind |-> "return", value |-> v, error |-> ""]
Raise(e) == [kind |-> "raise", value |-> 0, error |-> e]

\* await task_method(*args, **kwargs) on the fixtures: multiply returns
\* value * 2, add returns x + y, build raises ValueError; arguments that do not
\* bind to the parameters raise TypeError.
MethodBody(m, args, kwargs) ==
    LET params == MethodParams[m]
        binds == /\ Len(args) <= Len(params)
                 /\ Cardinality(kwargs) = Cardinality(OptionKeys(kwargs))
                 /\ OptionKeys(kwargs) = {params[j] : j \in (Len(args) + 1)..Len(params)}
        Arg(j) == IF j <= Len(args) THEN args[j]
                  ELSE (CHOOSE q \in kwargs : q[1] = params[j])[2]
    IN IF ~binds THEN Raise("TypeError")
       ELSE IF m = "multiply" THEN Return(Arg(1) * 2)
       ELSE IF m = "add" THEN Return(Arg(1) + Arg(2))
       ELSE Raise("ValueError")

\* The thread is in no wrapper call.
ThreadIdle(t) == \A j \in 1..MaxInvocations : inv[j].thread = t => inv[j].pc = "done"

\* The loop detection never finds a loop.
UsePoolNever(t) == FALSE

\* Every call is offloaded to a pool.
UsePoolAlways(t) == TRUE

\* asyncio.get_running_loop() returns a loop and loop.is_running().
UsePool(t) == callerLoops[t] > 0

\* The future hands an error out as a None result.
FutureResultSwallowed(stored) ==
    {IF o.kind = "raise" THEN Return(0) ELSE o : o \in stored}

\* Future.result(): the stored result, or the stored exception raised again.
FutureResult(stored) == stored

\* FakeContainer.aget(cls): a new instance of a class the container knows,
\* RuntimeError for any other class.
ContainerAget(c) ==
    IF c \in ContainerClasses
    THEN [ok |-> TRUE, insts |-> Append(instances, c), inst |-> Len(instances) + 1]
    ELSE [ok |-> FALSE, insts |-> instances, inst |-> 0]

\* The wrapper keeps the instance it resolved first and hands it to its later
\* invocations without asking the container again.
ResolveForCached(i) ==
    LET earlier == {j \in 1..MaxInvocations :
                       /\ j # i /\ inv[j].inst # 0
                       /\ inv[j].cls = inv[i].cls /\ inv[j].method = inv[i].method}
    IN IF earlier # {}
       THEN [ok |-> TRUE, insts |-> instances,
             inst |-> inv[CHOOSE j \in earlier : TRUE].inst]
       ELSE ContainerAget(inv[i].cls)

\* component_instance = await container.aget(component_cls)
ResolveFor(i) == ContainerAget(inv[i].cls)

\* What a routine may need from the loop that runs on the calling thread: a
\* callback it posts there (call_soon_threadsafe, run_coroutine_threadsafe)
\* and awaits, during the resolution or during the method, or nothing.
LoopNeeds == {"none", "aget", "method"}

\* sync_task_executor(*args, **kwargs) up to the point where the calling thread
\* either blocks on the pool submission or enters asyncio.run.  The wrapper
\* was registered by registration r (0: built directly) and its routine has
\* the need n.
InvokeWrapper(i, t, w, a, n, r) ==
    /\ inv[i].pc = "free"
    /\ \A j \in 1..(i - 1) : inv[j].pc # "free"
    /\ ThreadIdle(t)
    /\ LET called == [inv[i] EXCEPT !.thread = t, !.cls = w[1], !.method = w[2],
                                    !.args = a[1], !.kwargs = a[2],
                                    !.needs = n, !.via = r]
       IN IF UsePool(t)
          THEN /\ inv' = [inv EXCEPT ![i] = [called EXCEPT !.pc = "submitted",
                                                !.path = "pool", !.pools = 1,
                                                !.poolLive = 1]]
               /\ UNCHANGED callerLoops
          ELSE IF callerLoops[t] > 0
               \* asyncio.run refuses to start under a running loop
               THEN /\ inv' = [inv EXCEPT ![i] = [called EXCEPT !.pc = "done",
                                                     !.path = "direct",
                                                     !.raised = {"RuntimeError"},
                                                     !.outcome = {Raise("RuntimeError")}]]
                    /\ UNCHANGED callerLoops
               ELSE /\ inv' = [inv EXCEPT ![i] = [called EXCEPT !.pc = "aget",
                                                     !.path = "direct",
                                                     !.ranOn = "caller"]]
                    /\ callerLoops' = [callerLoops EXCEPT ![t] = @ + 1]
    /\ UNCHANGED <<ambientLoop, loopTicks, instances, markVars, regVars, clientVars>>

\* A call of a wrapper whose routine needs nothing from the caller's loop.
WrapperCall(i, t, w, a) == InvokeWrapper(i, t, w, a, "none", 0)

\* The routine of invocation i, at the given step, awaits a callback on the
\* loop of the calling thread.  Under asyncio.run on the calling thread that
\* loop is the one running the routine, which serves the callback itself.
AwaitsCallerLoop(i, step) == inv[i].needs = step /\ inv[i].path = "pool"

\* The wrapper hands the loop a future to await and does not block the thread.
CallerBlockedNever(t) == FALSE

\* The calling thread is inside a wrapper call: in Future.result() or in
\* asyncio.run, both of which return only when the routine is over.
CallerBlocked(t) == ~ThreadIdle(t)

\* The routine posts its callback to the loop of the calling thread.
PostToCallerLoop(i) ==
    /\ \/ inv[i].pc = "aget" /\ AwaitsCallerLoop(i, "aget")
       \/ inv[i].pc = "call" /\ AwaitsCallerLoop(i, "method")
    /\ ~inv[i].posted
    /\ inv' = [inv EXCEPT ![i].posted = TRUE]
    /\ UNCHANGED <<ambientLoop, callerLoops, loopTicks, instances, markVars, regVars,
                   clientVars>>

\* One iteration of the loop running on thread t: it runs the callbacks posted
\* to it.  The thread must be free to run it.
LoopStep(t) ==
    /\ ambientLoop[t]
    /\ ~CallerBlocked(t)
    /\ loopTicks' = [loopTicks EXCEPT ![t] = IF @ < MaxLoopTicks THEN @ + 1 ELSE @]
    /\ inv' = [j \in 1..MaxInvocations |->
                 IF inv[j].thread = t /\ inv[j].pc \notin {"free", "done"}
                 THEN [inv[j] EXCEPT !.loopRan = TRUE, !.served = inv[j].posted]
                 ELSE inv[j]]
    /\ UNCHANGED <<ambientLoop, callerLoops, instances, markVars, regVars, clientVars>>

\* The pool's worker thread takes the submission: asyncio.run on that thread.
PoolStart(i) ==
    /\ inv[i].pc = "submitted"
    /\ inv' = [inv EXCEPT ![i].pc = "aget", ![i].ranOn = "pool",
                          ![i].poolLoops = @ + 1]
    /\ UNCHANGED <<ambientLoop, callerLoops, loopTicks, instances, markVars, regVars, clientVars>>

\* run_task_logic: component_instance = await container.aget(component_cls)
Aget(i) ==
    /\ inv[i].pc = "aget"
    /\ AwaitsCallerLoop(i, "aget") => inv[i].served
    /\ instances' = ResolveFor(i).insts
    /\ IF ResolveFor(i).ok
       THEN inv' = [inv EXCEPT ![i].pc = "call", ![i].agets = @ + 1,
                               ![i].inst = ResolveFor(i).inst]
       ELSE inv' = [inv EXCEPT ![i].pc = "finish", ![i].agets = @ + 1,
                               ![i].raised = {"RuntimeError"},
                               ![i].co = {Raise("RuntimeError")}]
    /\ UNCHANGED <<ambientLoop, callerLoops, loopTicks, markVars, regVars, clientVars>>

\* run_task_logic: getattr(component_instance, method_name), then
\* await task_method(*args, **kwargs).
CallMethod(i) ==
    /\ inv[i].pc = "call"
    /\ AwaitsCallerLoop(i, "method") => inv[i].served
    /\ IF inv[i].method \notin MemberNames(inv[i].cls)
       THEN inv' = [inv EXCEPT ![i].pc = "finish",
                               ![i].raised = {"AttributeError"},
                               ![i].co = {Raise("AttributeError")}]
       ELSE LET r == MethodBody(inv[i].method, inv[i].args, inv[i].kwargs)
            IN inv' = [inv EXCEPT ![i].pc = "finish",
                                  ![i].calls = Append(@, [inst |-> inv[i].inst,
                                                          method |-> inv[i].method,
                                                          args |-> inv[i].args,
                                                          kwargs |-> inv[i].kwargs,
                                                          result |-> r]),
                                  ![i].raised = IF r.kind = "raise" THEN {r.error} ELSE {},
                                  ![i].co = {r}]
    /\ UNCHANGED <<ambientLoop, callerLoops, loopTicks, instances, markVars, regVars, clientVars>>

\* asyncio.run finishes: its loop is closed; on the calling thread the wrapper
\* returns or raises, on the pool thread the future is completed.
RunEnd(i) ==
    /\ inv[i].pc = "finish"
    /\ IF inv[i].path = "direct"
       THEN /\ inv' = [inv EXCEPT ![i].pc = "done", ![i].outcome = inv[i].co]
            /\ callerLoops' = [callerLoops EXCEPT ![inv[i].thread] = @ - 1]
       ELSE /\ inv' = [inv EXCEPT ![i].pc = "future_done", ![i].poolLoops = @ - 1]
            /\ UNCHANGED callerLoops
    /\ UNCHANGED <<ambientLoop, loopTicks, instances, markVars, regVars, clientVars>>

\* The pool is shut down on the return path only: an error leaving .result()
\* skips the shutdown.
PoolResultLeaksOnError(i) ==
    /\ inv[i].pc = "future_done"
    /\ inv' = [inv EXCEPT ![i].pc = "done", ![i].outcome = FutureResult(inv[i].co),
                          ![i].poolLive = IF \E o \in inv[i].co : o.kind = "raise"
                                          THEN @ ELSE @ - 1]
    /\ UNCHANGED <<ambientLoop, callerLoops, loopTicks, instances, markVars, regVars,
                   clientVars>>

\* The calling thread wakes in .result(), the with block shuts the pool down
\* and the wrapper returns or raises.
PoolResult(i) ==
    /\ inv[i].pc = "future_done"
    /\ inv' = [inv EXCEPT ![i].pc = "done", ![i].outcome = FutureResult(inv[i].co),
                          ![i].poolLive = @ - 1]
    /\ UNCHANGED <<ambientLoop, callerLoops, loopTicks, instances, markVars, regVars, clientVars>>

WrapperInit ==
    /\ inv = [i \in 1..MaxInvocations |-> FreeSlot]
    /\ ambientLoop \in [CallerThreads -> BOOLEAN]
    /\ callerLoops = [t \in CallerThreads |-> IF ambientLoop[t] THEN 1 ELSE 0]
    /\ loopTicks = [t \in CallerThreads |-> 0]
    /\ instances = <<>>
    /\ taskMeta = [t \in Targets |-> {}]
    /\ senderMeta = [t \in Targets |-> {}]
    /\ DecorationsIdle
    /\ RegistrarIdle
    /\ ClientIdle

WrapperNext ==
    \/ \E i \in 1..MaxInvocations, t \in CallerThreads, w \in WrapperTargets,
          a \in CallArguments : WrapperCall(i, t, w, a)
    \/ \E i \in 1..MaxInvocations : PoolStart(i)
    \/ \E i \in 1..MaxInvocations : Aget(i)
    \/ \E i \in 1..MaxInvocations : CallMethod(i)
    \/ \E i \in 1..MaxInvocations : RunEnd(i)
    \/ \E i \in 1..MaxInvocations : PoolResult(i)

SpecWrapper == WrapperInit /\ [][WrapperNext]_vars

Done(i) == inv[i].pc = "done"
Returned(i) == Done(i) /\ \E o \in inv[i].outcome : o.kind = "return"
SameInputs(i, j) ==
    /\ inv[i].cls = inv[j].cls /\ inv[i].method = inv[j].method
    /\ inv[i].args = inv[j].args /\ inv[i].kwargs = inv[j].kwargs

\* The wrapper called from threads whose loop goes on running between the
\* calls, with routines that may need that loop.
BlockingTargets == {<<"MathTasks", "multiply">>, <<"ReportTasks", "build">>}
BlockingArguments == {<< <<3>>, {} >>}

CallerLoopNext ==
    \/ \E i \in 1..MaxInvocations, t \in CallerThreads, w \in BlockingTargets,
          a \in BlockingArguments, n \in LoopNeeds : InvokeWrapper(i, t, w, a, n, 0)
    \/ \E i \in 1..MaxInvocations : PoolStart(i)
    \/ \E i \in 1..MaxInvocations : PostToCallerLoop(i)
    \/ \E t \in CallerThreads : LoopStep(t)
    \/ \E i \in 1..MaxInvocations : Aget(i)
    \/ \E i \in 1..MaxInvocations : CallMethod(i)
    \/ \E i \in 1..MaxInvocations : RunEnd(i)
    \/ \E i \in 1..MaxInvocations : PoolResult(i)

SpecCallerLoop == WrapperInit /\ [][CallerLoopNext]_vars

\* C3: no invocation resolves or calls more than once; an invocation that
\* returned made one aget call that gave it an instance of the owning class
\* shared with no other invocation, called the named method once on it with
\* the call-time args and kwargs, and returned that call's result.
C3_OneInstanceOneCall ==
    \A i \in 1..MaxInvocations :
        /\ inv[i].agets <= 1 /\ Len(inv[i].calls) <= 1
        /\ Returned(i)
           => /\ inv[i].agets = 1
              /\ inv[i].inst \in 1..Len(instances)
              /\ instances[inv[i].inst] = inv[i].cls
              /\ \A j \in 1..MaxInvocations : j # i => inv[j].inst # inv[i].inst
              /\ Len(inv[i].calls) = 1
              /\ inv[i].calls[1].inst = inv[i].inst
              /\ inv[i].calls[1].method = inv[i].method
              /\ inv[i].calls[1].args = inv[i].args
              /\ inv[i].calls[1].kwargs = inv[i].kwargs
              /\ inv[i].outcome = {inv[i].calls[1].result}

C3_Witness ==
    /\ Returned(1) /\ Returned(2)
    /\ inv[1].method = "multiply" /\ inv[2].method = "multiply"
    /\ inv[1].args = <<3>> /\ inv[1].outcome = {Return(6)}
    /\ inv[2].kwargs = {<<"value", 5>>} /\ inv[2].outcome = {Return(10)}
    /\ inv[1].inst = 2 /\ inv[2].inst = 1
    /\ instances = <<"MathTasks", "MathTasks">>

\* C4: two finished invocations of the same wrapper with the same arguments,
\* one from a thread without a running loop and one from a thread with one,
\* have the same outcome, the same number of resolutions and the same number
\* of method calls.
C4_PathEquivalence ==
    \A i, j \in 1..MaxInvocations :
        (Done(i) /\ Done(j) /\ SameInputs(i, j)
            /\ ~ambientLoop[inv[i].thread] /\ ambientLoop[inv[j].thread])
        => /\ inv[i].outcome = inv[j].outcome
           /\ inv[i].agets = inv[j].agets
           /\ Len(inv[i].calls) = Len(inv[j].calls)

C4_Witness ==
    /\ Done(1) /\ Done(2) /\ SameInputs(1, 2)
    /\ inv[1].path = "pool" /\ inv[2].path = "direct"
    /\ ambientLoop[inv[1].thread] /\ ~ambientLoop[inv[2].thread]
    /\ inv[1].outcome = {Return(6)} /\ inv[2].outcome = {Return(6)}

\* C5: an error raised by the resolution or by the method call is the error
\* the wrapper raises, on either path, and a failing invocation resolves at
\* most once and calls the method at most once; without such an error the
\* wrapper returns.
C5_ErrorsPropagate ==
    \A i \in 1..MaxInvocations :
        /\ inv[i].raised # {} => inv[i].agets <= 1 /\ Len(inv[i].calls) <= 1
        /\ Done(i) => /\ inv[i].outcome # {}
                      /\ \A e \in inv[i].raised : inv[i].outcome = {Raise(e)}
                      /\ inv[i].raised = {} => Returned(i)

C5_Witness ==
    /\ Done(1) /\ Done(2)
    /\ inv[1].path = "pool" /\ inv[1].raised = {"ValueError"}
    /\ inv[1].outcome = {Raise("ValueError")} /\ Len(inv[1].calls) = 1
    /\ inv[2].path = "direct" /\ inv[2].raised = {"RuntimeError"}
    /\ inv[2].outcome = {Raise("RuntimeError")} /\ inv[2].agets = 1
    /\ inv[2].calls = <<>>

\* The inner routine of invocation i has been started and has not finished.
Running(i) == inv[i].pc \in {"aget", "call", "finish"}

\* C6: no thread ever has two running loops; an invocation from a thread with
\* a running loop never starts its routine on that thread but on a new loop of
\* its pool thread, and one from a thread without a loop runs its routine on a
\* new loop of the calling thread.
C6_NoNestedScheduler ==
    /\ \A t \in CallerThreads : callerLoops[t] <= 1
    /\ \A i \in 1..MaxInvocations :
          /\ inv[i].poolLoops <= 1
          /\ (inv[i].pc # "free" /\ ambientLoop[inv[i].thread])
             => /\ inv[i].ranOn # "caller"
                /\ inv[i].pc # "submitted" => inv[i].ranOn = "pool"
                /\ Running(i) => inv[i].poolLoops = 1
          /\ (inv[i].pc # "free" /\ ~ambientLoop[inv[i].thread])
             => /\ inv[i].ranOn = "caller"
                /\ inv[i].pools = 0
                /\ Running(i) => callerLoops[inv[i].thread] = 1

C6_Witness ==
    /\ inv[1].pc = "call" /\ inv[2].pc = "call"
    /\ ambientLoop[inv[1].thread] /\ ~ambientLoop[inv[2].thread]
    /\ inv[1].ranOn = "pool" /\ inv[1].poolLoops = 1
    /\ inv[2].ranOn = "caller"
    /\ \A t \in CallerThreads : callerLoops[t] = 1

\* C16: an invocation on the pool path creates one pool of its own, live
\* while the invocation is in progress and shut down when the wrapper has
\* returned or raised; an invocation on the direct path creates none; when no
\* invocation is in progress no pool is live.
C16_PoolPerInvocation ==
    /\ \A i \in 1..MaxInvocations :
          /\ inv[i].path = "pool"
             => /\ inv[i].pools = 1
                /\ inv[i].poolLive = IF Done(i) THEN 0 ELSE 1
          /\ inv[i].path # "pool" => inv[i].pools = 0 /\ inv[i].poolLive = 0
    /\ (\A i \in 1..MaxInvocations : inv[i].pc \in {"free", "done"})
       => \A i \in 1..MaxInvocations : inv[i].poolLive = 0

C16_Witness ==
    /\ Done(1) /\ inv[1].path = "pool" /\ inv[1].outcome = {Raise("ValueError")}
    /\ Done(2) /\ inv[2].path = "pool" /\ inv[2].outcome = {Raise("RuntimeError")}
    /\ inv[2].calls = <<>>
    /\ inv[1].pools = 1 /\ inv[2].pools = 1
    /\ inv[1].poolLive = 0 /\ inv[2].poolLive = 0

\* Invocation i has been made and has not returned or raised.
InProgress(i) == inv[i].pc \notin {"free", "done"}

CallerLoopFairness ==
    /\ \A i \in 1..MaxInvocations :
          /\ WF_vars(PoolStart(i)) /\ WF_vars(PostToCallerLoop(i))
          /\ WF_vars(Aget(i)) /\ WF_vars(CallMethod(i))
          /\ WF_vars(RunEnd(i)) /\ WF_vars(PoolResult(i))
    /\ \A t \in CallerThreads : WF_vars(LoopStep(t))

SpecCallerLoopFair == SpecCallerLoop /\ CallerLoopFairness

\* C18: under fair scheduling every wrapper invocation eventually returns or
\* raises, whatever its routine needs from the loop of the calling thread.
C18_AlwaysTerminates ==
    \A i \in 1..MaxInvocations : InProgress(i) ~> Done(i)

\* ------------------------------------------------------------ the markers
\* inspect.iscoroutinefunction looks through a bound method at its function.
IsCoroutineFunction(t) == t \in AsyncFuncs \cup {"bound async method"}
IsFunction(t) == t \in Funcs
IsMethod(t) == t \in BoundMethods
\* The object has a __name__ (functions, classes, bound methods).
HasName(t) == t \notin {"int 42", "callable object"}
\* setattr on the object works (not on an int, not on a bound method).
AttrSettable(t) == t \notin BoundMethods \cup {"int 42"}

\* task(...).decorator(func): how it ends.  The TypeError message is built
\* from func.__name__ before the error is raised.
TaskOutcome(t) ==
    IF ~IsCoroutineFunction(t)
    THEN IF HasName(t) THEN "TypeError" ELSE "AttributeError"
    ELSE IF AttrSettable(t) THEN "ok" ELSE "AttributeError"

\* send_task(...).decorator(func): how it ends.
SendTaskOutcome(t) ==
    IF ~IsFunction(t) /\ ~IsMethod(t) THEN "TypeError"
    ELSE IF AttrSettable(t) THEN "ok" ELSE "AttributeError"

\* @task(name, **celery_options) applied to t.
ApplyTask(t, n, o) ==
    /\ decorations < MaxDecorations
    /\ decorations' = decorations + 1
    /\ taskMeta' = IF TaskOutcome(t) = "ok"
                   THEN [taskMeta EXCEPT ![t] = {[name |-> n, options |-> o]}]
                   ELSE taskMeta
    /\ lastMark' = [NoMark EXCEPT !.op = "task", !.target = t,
                                  !.name = n, !.options = o,
                                  !.outcome = TaskOutcome(t),
                                  !.returned = IF TaskOutcome(t) = "ok" THEN t ELSE ""]
    /\ UNCHANGED <<senderMeta, needsInterception, wrapped, components, regVars,
                   clientVars, wrapVars>>

\* @send_task(name, **celery_options) applied to t.
ApplySendTask(t, n, o) ==
    /\ decorations < MaxDecorations
    /\ decorations' = decorations + 1
    /\ senderMeta' = IF SendTaskOutcome(t) = "ok"
                     THEN [senderMeta EXCEPT ![t] = {[name |-> n, options |-> o]}]
                     ELSE senderMeta
    /\ lastMark' = [NoMark EXCEPT !.op = "send_task", !.target = t,
                                  !.name = n, !.options = o,
                                  !.outcome = SendTaskOutcome(t),
                                  !.returned = IF SendTaskOutcome(t) = "ok" THEN t ELSE ""]
    /\ UNCHANGED <<taskMeta, needsInterception, wrapped, components, regVars,
                   clientVars, wrapVars>>

\* decorate, first loop: the function members with sender metadata.
SenderMembers(c) == {n \in MemberNames(c) : senderMeta[MemberFunc(c, n)] # {}}
HasSendTasks(c) == SenderMembers(c) # {}

\* The scan overlooks the task-marked methods.
HasWorkerTasksOverlooked(c) == FALSE

\* decorate, first loop: some function member has task metadata.
HasWorkerTasks(c) == \E n \in MemberNames(c) : taskMeta[MemberFunc(c, n)] # {}

Scopes == {"singleton", "prototype"}

\* The second loop replaces every function member.
InterceptedMembersAll(c, flagged) == MemberNames(c)

\* decorate, second loop: the function members carrying _needs_interception.
InterceptedMembers(c, flagged) == {k \in MemberNames(c) : MemberFunc(c, k) \in flagged}

\* @celery (bare: the default scope) or @celery(scope=...) applied to class c.
ApplyCelery(c, mode, scope) ==
    /\ decorations < MaxDecorations
    /\ mode = "bare" => scope = "singleton"
    /\ decorations' = decorations + 1
    /\ needsInterception' = needsInterception
                              \cup {MemberFunc(c, n) : n \in SenderMembers(c)}
    /\ IF ~HasSendTasks(c) /\ ~HasWorkerTasks(c)
       THEN /\ lastMark' = [NoMark EXCEPT !.op = "celery", !.target = c,
                                          !.outcome = "ValueError", !.message = c,
                                          !.scope = scope, !.mode = mode]
            /\ UNCHANGED <<wrapped, components>>
       ELSE /\ wrapped' = IF HasSendTasks(c)
                          THEN wrapped \cup
                               {<<c, n>> : n \in InterceptedMembers(c, needsInterception')}
                          ELSE wrapped
            /\ components' = components \cup {[cls |-> c, scope |-> scope]}
            \* handed: the members already replaced on c when component() gets it
            /\ lastMark' = [NoMark EXCEPT !.op = "celery", !.target = c,
                                          !.outcome = "ok", !.returned = c,
                                          !.scope = scope, !.mode = mode,
                                          !.handed = {n \in MemberNames(c) :
                                                         <<c, n>> \in wrapped'}]
    /\ UNCHANGED <<taskMeta, senderMeta, regVars, clientVars, wrapVars>>

MarkersInit ==
    /\ taskMeta = [t \in Targets |-> {}]
    /\ senderMeta = [t \in Targets |-> {}]
    /\ DecorationsIdle
    /\ RegistrarIdle
    /\ ClientIdle
    /\ WrapperIdle

\* The objects and classes the markers are applied to.
MarkTargets == OtherTargets \cup {"MathTasks.multiply", "MathTasks.helper",
                                  "NotifyClient.notify", "NotifyClient.status"}
MarkClasses == {"MathTasks", "FastMath", "NotifyClient", "NoTasks"}

MarkersNext ==
    \/ \E t \in MarkTargets, n \in TaskNames, o \in OptionSets : ApplyTask(t, n, o)
    \/ \E t \in MarkTargets, n \in TaskNames, o \in OptionSets : ApplySendTask(t, n, o)
    \/ \E c \in MarkClasses, mode \in {"bare", "factory"}, scope \in Scopes :
          ApplyCelery(c, mode, scope)

SpecMarkers == MarkersInit /\ [][MarkersNext]_vars

\* C7: the task marker applied to a target that is not a coroutine function
\* ends in TypeError and leaves no task metadata on the target.
C7_NonAsyncTypeError ==
    (lastMark.op = "task"
        /\ lastMark.target \notin AsyncFuncs \cup {"bound async method"})
    => /\ lastMark.outcome = "TypeError"
       /\ taskMeta[lastMark.target] = {}

\* C8: the sender marker applied to a function or a bound method succeeds,
\* leaves the given name and options on the target and returns the target;
\* applied to anything else it ends in TypeError and attaches nothing.
C8_SenderMarkerOutcome ==
    lastMark.op = "send_task"
    => IF lastMark.target \in Funcs \cup BoundMethods
       THEN /\ lastMark.outcome = "ok"
            /\ senderMeta[lastMark.target] =
                  {[name |-> lastMark.name, options |-> lastMark.options]}
            /\ lastMark.returned = lastMark.target
       ELSE /\ lastMark.outcome = "TypeError"
            /\ senderMeta[lastMark.target] = {}

\* The function members of a class that carry sender or task metadata.
Marked(c) ==
    {n \in MemberNames(c) :
        taskMeta[MemberFunc(c, n)] # {} \/ senderMeta[MemberFunc(c, n)] # {}}

\* C9: the client registrar, bare or with a scope, applied to a class without
\* marked methods ends in ValueError naming the class, and such a class has no
\* method replaced or flagged and is no component; applied to a class with a
\* marked method it registers the class under the scope without error.
C9_CeleryNeedsMarkedMethod ==
    /\ lastMark.op = "celery"
       => IF Marked(lastMark.target) = {}
          THEN /\ lastMark.outcome = "ValueError"
               /\ lastMark.message = lastMark.target
               /\ lastMark.returned = ""
          ELSE /\ lastMark.outcome = "ok"
               /\ lastMark.returned = lastMark.target
               /\ [cls |-> lastMark.target, scope |-> lastMark.scope] \in components
    /\ \A c \in Classes :
          Marked(c) = {}
          => /\ \A x \in components : x.cls # c
             /\ \A n \in MemberNames(c) :
                   <<c, n>> \notin wrapped /\ MemberFunc(c, n) \notin needsInterception

C9_Witness ==
    /\ lastMark.op = "celery" /\ lastMark.target = "NoTasks"
    /\ lastMark.mode = "factory" /\ lastMark.scope = "prototype"
    /\ lastMark.outcome = "ValueError" /\ lastMark.message = "NoTasks"
    /\ components = {[cls |-> "NotifyClient", scope |-> "singleton"]}
    /\ wrapped = {<<"NotifyClient", "notify">>}
    /\ Marked("NotifyClient") = {"notify"}

\* C15: a method is replaced on a class only if it carries sender metadata;
\* when the client registrar has just succeeded on a class, every member with
\* sender metadata is replaced on it, a class with task-marked members only
\* has none replaced, and the class handed to component() under the given
\* scope already had exactly those members replaced.
C15_WrapsExactlySenders ==
    /\ \A x \in wrapped : senderMeta[MemberFunc(x[1], x[2])] # {}
    /\ (lastMark.op = "celery" /\ lastMark.outcome = "ok")
       => /\ \A n \in MemberNames(lastMark.target) :
                <<lastMark.target, n>> \in wrapped
                <=> senderMeta[MemberFunc(lastMark.target, n)] # {}
          /\ lastMark.handed = SenderMembers(lastMark.target)
          /\ [cls |-> lastMark.target, scope |-> lastMark.scope] \in components

C15_Witness ==
    /\ lastMark.op = "celery" /\ lastMark.outcome = "ok"
    /\ lastMark.target = "MathTasks" /\ lastMark.scope = "prototype"
    /\ senderMeta["MathTasks.helper"] # {} /\ taskMeta["MathTasks.helper"] = {}
    /\ taskMeta["MathTasks.multiply"] # {} /\ senderMeta["MathTasks.multiply"] = {}
    /\ wrapped = {<<"MathTasks", "helper">>}
    /\ lastMark.handed = {"helper"}
    /\ components = {[cls |-> "MathTasks", scope |-> "prototype"]}

\* ------------------------------------------------- registered wrappers
\* The worker: register_tasks on a container of resolvable classes, and the
\* task-queue application calling the wrappers it was given.
WorkerEntries == {{c} : c \in ContainerClasses}
WorkerMarks ==
    {[t \in Targets |-> IF t \in AsyncFuncs THEN tm[t] ELSE {}] :
        tm \in [AsyncFuncs -> {{}} \cup {{[name |-> n, options |-> {}]} : n \in TaskNames}]}
WorkerThreads == {"worker-1"}

WorkerInit ==
    /\ taskMeta \in WorkerMarks
    /\ senderMeta = [t \in Targets |-> {}]
    /\ DecorationsIdle
    /\ hasLocator = TRUE
    /\ registry \in SeqUpTo(WorkerEntries, MaxEntries)
    /\ regPc = "idle" /\ regIdx = 1 /\ registered = <<>>
    /\ ClientIdle
    /\ inv = [i \in 1..MaxInvocations |-> FreeSlot]
    /\ ambientLoop \in [CallerThreads -> BOOLEAN]
    /\ \A t \in CallerThreads \ WorkerThreads : ~ambientLoop[t]
    /\ callerLoops = [t \in CallerThreads |-> IF ambientLoop[t] THEN 1 ELSE 0]
    /\ loopTicks = [t \in CallerThreads |-> 0]
    /\ instances = <<>>

\* The task-queue application runs the callable it was given by registration r.
RunRegistered(i, t, r, a) ==
    /\ r \in 1..Len(registered)
    /\ InvokeWrapper(i, t, <<registered[r].cls, registered[r].method>>, a, "none", r)

WorkerNext ==
    \/ RegistrarNext
    \/ \E i \in 1..MaxInvocations, t \in WorkerThreads, r \in 1..Len(registered),
          a \in BlockingArguments : RunRegistered(i, t, r, a)
    \/ \E i \in 1..MaxInvocations : PoolStart(i)
    \/ \E i \in 1..MaxInvocations : Aget(i)
    \/ \E i \in 1..MaxInvocations : CallMethod(i)
    \/ \E i \in 1..MaxInvocations : RunEnd(i)
    \/ \E i \in 1..MaxInvocations : PoolResult(i)

SpecWorker == WorkerInit /\ [][WorkerNext]_vars

\* The task-marked members of the first k registry entries, in the order the
\* scan meets them: entry by entry, members by name.
RECURSIVE Discovered(_)
Discovered(k) ==
    IF k = 0 THEN <<>>
    ELSE Discovered(k - 1)
         \o (IF IsClassEntry(registry[k])
             THEN LET c == CHOOSE v \in registry[k] : TRUE
                      marked == SelectSeq(ClassMembers[c], LAMBDA p : HasTaskMeta(p[2]))
                  IN [j \in 1..Len(marked) |->
                         [cls |-> c, method |-> marked[j][1], func |-> marked[j][2]]]
             ELSE <<>>)

\* C17: the r-th registration is made under the name declared by the r-th
\* discovered method, and an invocation of its wrapper resolves the class in
\* which that method was found, and no other, and calls that method name,
\* and no other, on the instance it got.
C17_WrapperBinding ==
    LET found == Discovered(regIdx - 1)
    IN /\ Len(registered) = Len(found)
       /\ \A r \in 1..Len(registered) :
             registered[r].name = TaskMetaOf(found[r].func).name
       /\ \A i \in 1..MaxInvocations :
             inv[i].via # 0
             => /\ inv[i].via \in 1..Len(found)
                /\ inv[i].inst # 0
                   => /\ inv[i].inst \in 1..Len(instances)
                      /\ instances[inv[i].inst] = found[inv[i].via].cls
                /\ \A k \in 1..Len(inv[i].calls) :
                      /\ inv[i].calls[k].method = found[inv[i].via].method
                      /\ inv[i].calls[k].inst = inv[i].inst

C17_Witness ==
    /\ registry = << {"MathTasks"}, {"ReportTasks"} >> /\ regPc = "done"
    /\ Len(registered) = 3
    /\ registered[1].name = "tasks.b" /\ registered[2].name = "tasks.a"
    /\ registered[3].name = "tasks.b"
    /\ Done(1) /\ inv[1].via = 2 /\ instances[inv[1].inst] = "MathTasks"
    /\ inv[1].calls[1].method = "multiply" /\ inv[1].outcome = {Return(6)}
    /\ Done(2) /\ inv[2].via = 3 /\ instances[inv[2].inst] = "ReportTasks"
    /\ Len(inv[2].calls) = 1 /\ inv[2].calls[1].method = "build"

\* ------------------------------------------------------------- lifecycle
\* Markers, client registrar, register_tasks, a wrapper invocation and
\* interceptor calls in any order on one set of functions.
LifecycleTargets == {"MathTasks.multiply", "ReportTasks.build"}
LifecycleContexts ==
    {[cls |-> "MathTasks", name |-> "multiply", args |-> <<7, "hi">>, kwargs |-> {}]}

LifecycleInit ==
    /\ taskMeta = [t \in Targets |-> {}]
    /\ senderMeta = [t \in Targets |-> {}]
    /\ DecorationsIdle
    /\ hasLocator = TRUE
    /\ registry = << {"MathTasks"}, {"ReportTasks"} >>
    /\ regPc = "idle" /\ regIdx = 1 /\ registered = <<>>
    /\ ClientIdle
    /\ WrapperIdle

LifecycleNext ==
    \/ \E t \in LifecycleTargets, n \in TaskNames, o \in OptionSets : ApplyTask(t, n, o)
    \/ \E t \in LifecycleTargets, n \in TaskNames : ApplySendTask(t, n, {})
    \/ \E c \in ContainerClasses : ApplyCelery(c, "bare", "singleton")
    \/ RegistrarNext
    \/ \E ctx \in LifecycleContexts : Invoke(ctx)
    \/ \E r \in 1..Len(registered), a \in BlockingArguments :
          RunRegistered(1, "worker-1", r, a)
    \/ Aget(1)
    \/ CallMethod(1)
    \/ RunEnd(1)

SpecLifecycle == LifecycleInit /\ [][LifecycleNext]_vars

\* C13 as stated: once a function carries task metadata, no step changes it.
C13_NeverChanges ==
    [][\A t \in Targets : taskMeta[t] # {} => taskMeta'[t] = taskMeta[t]]_vars

\* C13 amended: the task metadata of a function changes only in a successful
\* application of the task marker to that function, which replaces it by the
\* name and options given in that application; every other operation leaves
\* it as it is, and a registration carries the name and options the function
\* has at the time of the scan.
C13_ChangedOnlyByTaskMarker ==
    [][/\ \A t \in Targets :
             taskMeta'[t] # taskMeta[t]
             => /\ decorations' = decorations + 1
                /\ lastMark'.op = "task" /\ lastMark'.target = t
                /\ lastMark'.outcome = "ok"
                /\ taskMeta'[t] = {[name |-> lastMark'.name,
                                    options |-> lastMark'.options]}
       /\ \A r \in (Len(registered) + 1)..Len(registered') :
             [name |-> registered'[r].name, options |-> registered'[r].options]
                \in taskMeta[MemberFunc(registered'[r].cls, registered'[r].method)]
      ]_vars

C13_Witness ==
    /\ regPc = "done"
    /\ registered = << [name |-> "tasks.a", options |-> {}, cls |-> "MathTasks",
                        method |-> "multiply"] >>
    /\ lastMark.op = "task" /\ lastMark.target = "MathTasks.multiply"
    /\ lastMark.outcome = "ok"
    /\ taskMeta["MathTasks.multiply"] =
          {[name |-> "tasks.b", options |-> {<<"queue", "high">>}]}
    /\ Done(1) /\ inv[1].via = 1 /\ inv[1].outcome = {Return(6)}
    /\ Len(results) = 1
    /\ components # {}

\* ---------------------------------------------------------- whole system
\* Nothing is marked, the container holds some registry, each calling thread
\* has a running loop or not.
Init ==
    /\ taskMeta = [t \in Targets |-> {}]
    /\ senderMeta = [t \in Targets |-> {}]
    /\ DecorationsIdle
    /\ hasLocator \in BOOLEAN
    /\ registry \in SeqUpTo(EntryValues, MaxEntries)
    /\ (~hasLocator => registry = <<>>)
    /\ regPc = "idle" /\ regIdx = 1 /\ registered = <<>>
    /\ ClientIdle
    /\ inv = [i \in 1..MaxInvocations |-> FreeSlot]
    /\ ambientLoop \in [CallerThreads -> BOOLEAN]
    /\ callerLoops = [t \in CallerThreads |-> IF ambientLoop[t] THEN 1 ELSE 0]
    /\ loopTicks = [t \in CallerThreads |-> 0]
    /\ instances = <<>>

Next == MarkersNext \/ RegistrarNext \/ ClientNext \/ WrapperNext

Spec == Init /\ [][Next]_vars

====
